---- MODULE Spec2Model ----
(***************************************************************************)
(* Contest archive front end: the HomePage view-model (class/year filter,  *)
(* sidebar years, default-year effect) and the AdminPanel form controller  *)
(* (draft editing, validation, wire payload, create/update/delete and the  *)
(* list refetch), as state machines translated from AdminPanel.tsx.        *)
(*                                                                         *)
(* Text is a sequence of one-character strings, so that trimming, number   *)
(* formatting and parsing are computed and not assumed.  null is NULL.     *)
(***************************************************************************)
EXTENDS Integers, Sequences, FiniteSets, TLC

VARIABLES
    \* HomePage state (useState, lines 480-483) and its pending GET
    selectedClass, selectedYear, homeContests, homeLoading, homeFetch,
    \* what its last render computed: the Sidebar's years, filteredContests
    yearList, filtered,
    \* AdminPanel state (useState, lines 35-46)
    contests, isDialogOpen, editingId, loading, error, formData,
    \* the page ("new": built, mount effect not yet run; "live"; "reloading"),
    \* localStorage['admin_token'], the calls in flight, what the last step did
    page, token, inflight, last

homeVars == <<selectedClass, selectedYear, homeContests, homeLoading, homeFetch,
              yearList, filtered>>
adminVars == <<contests, isDialogOpen, editingId, loading, error, formData,
               page, token, inflight, last>>
vars == <<homeVars, adminVars>>

-----------------------------------------------------------------------------
(* Bounds *)

MaxList == 3        \* contests in a list returned to the home page
MaxViewList == 4    \* contests in a list the view-model is applied to
MaxRows == 3        \* solution rows the user adds to the draft

-----------------------------------------------------------------------------
(* JavaScript values *)

NULL == -1          \* null of `number | null` (ids and years are >= 0)

T(s) == <<s>>       \* a one-character text
Empty == <<>>       \* ''

Digits == <<"0", "1", "2", "3", "4", "5", "6", "7", "8", "9">>

IsSpace(ch) == ch = " "

\* !x for a string
FalsyText(s) == Len(s) = 0

\* !x for number | null
FalsyNum(n) == n = NULL \/ n = 0

RECURSIVE TrimStart(_)
TrimStart(s) ==
    IF s = <<>> THEN <<>>
    ELSE IF IsSpace(Head(s)) THEN TrimStart(Tail(s)) ELSE s

RECURSIVE TrimEnd(_)
TrimEnd(s) ==
    IF s = <<>> THEN <<>>
    ELSE IF IsSpace(s[Len(s)]) THEN TrimEnd(SubSeq(s, 1, Len(s) - 1)) ELSE s

\* String.prototype.trim
Trim(s) == TrimEnd(TrimStart(s))

\* String(n) for a non-negative integer
RECURSIVE NumberToString(_)
NumberToString(n) ==
    IF n < 10 THEN <<Digits[n + 1]>>
    ELSE NumberToString(n \div 10) \o <<Digits[(n % 10) + 1]>>

DigitValue(ch) == CHOOSE d \in 0..9 : Digits[d + 1] = ch

IsDigit(ch) == \E d \in 0..9 : Digits[d + 1] = ch

RECURSIVE DigitsValue(_, _)
DigitsValue(s, acc) ==
    IF s = <<>> \/ ~IsDigit(Head(s)) THEN acc
    ELSE DigitsValue(Tail(s), 10 * acc + DigitValue(Head(s)))

NaN == -2

\* parseInt(s): leading white space skipped, the leading digits read, NaN if none
ParseInt(s) ==
    LET t == TrimStart(s)
    IN  IF t = <<>> \/ ~IsDigit(Head(t)) THEN NaN ELSE DigitsValue(t, 0)

\* Number(key) for a property key written by NumberToString
ToNumber(s) ==
    LET t == Trim(s)
    IN  IF t = <<>> THEN 0
        ELSE IF \A i \in 1..Len(t) : IsDigit(t[i]) THEN DigitsValue(t, 0) ELSE NaN

\* Array.prototype.sort((a, b) => b - a): insertion of each element in turn
RECURSIVE InsertDescending(_, _)
InsertDescending(x, s) ==
    IF s = <<>> THEN <<x>>
    ELSE IF x - Head(s) > 0 THEN <<x>> \o s
         ELSE <<Head(s)>> \o InsertDescending(x, Tail(s))

RECURSIVE InsertAscending(_, _)
InsertAscending(x, s) ==
    IF s = <<>> THEN <<x>>
    ELSE IF x - Head(s) < 0 THEN <<x>> \o s
         ELSE <<Head(s)>> \o InsertAscending(x, Tail(s))

RECURSIVE SortAscending(_)
SortAscending(s) ==
    IF s = <<>> THEN <<>> ELSE InsertAscending(Head(s), SortAscending(Tail(s)))

RECURSIVE SortDescending(_)
SortDescending(s) ==
    IF s = <<>> THEN <<>> ELSE InsertDescending(Head(s), SortDescending(Tail(s)))

\* [...new Set(s)]: the first occurrence of each value, in insertion order
RECURSIVE Distinct(_, _)
Distinct(s, seen) ==
    IF s = <<>> THEN <<>>
    ELSE IF Head(s) \in seen THEN Distinct(Tail(s), seen)
         ELSE <<Head(s)>> \o Distinct(Tail(s), seen \cup {Head(s)})

NewSet(s) == Distinct(s, {})

-----------------------------------------------------------------------------
(* Contests *)

OtherText == <<"o", "t", "h", "e", "r">>

NoSolutions == <<>>
EmptyRow == [problem_name |-> Empty, solution_url |-> Empty]

Contest(id, cls, year, name, url, sols) ==
    [id |-> id, class_level |-> cls, year |-> year, contest_name |-> name,
     contest_url |-> url, solutions |-> sols]

-----------------------------------------------------------------------------
(* HomePage *)

\* selectedClass: number | "other"
ClassNumber(n) == [other |-> FALSE, n |-> n]
ClassOther == [other |-> TRUE, n |-> 0]

TruthyClass(cls) == cls.other \/ cls.n # 0

\* "other" taken for the absence of a class
getClassLevelStringNumeric(cls) == NumberToString(cls.n)

getClassLevelString(cls) == IF cls.other THEN OtherText ELSE NumberToString(cls.n)

ClassOnly(list, classLevelStr) ==
    LET Keep(c) == c.class_level = classLevelStr IN SelectSeq(list, Keep)

YearsOf(list) == [i \in 1..Len(list) |-> list[i].year]

\* the years computed in the default-year effect (lines 498-500)
effectYears(list, cls) ==
    SortDescending(NewSet(YearsOf(ClassOnly(list, getClassLevelString(cls)))))

\* the effect without its !selectedYear test
defaultYearEffectOverwrite(list, cls, year) ==
    IF Len(list) > 0 /\ TruthyClass(cls)
    THEN LET ys == effectYears(list, cls)
         IN  IF Len(ys) > 0 THEN ys[1] ELSE year
    ELSE year

\* the effect taking its years from the contests of every class
defaultYearEffectAnyClass(list, cls, year) ==
    IF Len(list) > 0 /\ TruthyClass(cls)
    THEN LET ys == SortDescending(NewSet(YearsOf(list)))
         IN  IF Len(ys) > 0 /\ FalsyNum(year) THEN ys[1] ELSE year
    ELSE year

\* the effect of lines 496-505: the year selected after it has run
defaultYearEffect(list, cls, year) ==
    IF Len(list) > 0 /\ TruthyClass(cls)
    THEN LET years == effectYears(list, cls)
         IN  IF Len(years) > 0 /\ FalsyNum(year) THEN years[1] ELSE year
    ELSE year

\* filteredContests (lines 520-523)
filteredContests(list, cls, year) ==
    LET classLevelStr == getClassLevelString(cls)
        Keep(c) == c.class_level = classLevelStr /\ (year = NULL \/ c.year = year)
    IN  SelectSeq(list, Keep)

\* a.localeCompare(b) for texts of lower-case letters: negative, 0 or positive
Letters == <<"a", "b", "c">>

LetterRank(ch) == CHOOSE r \in 1..Len(Letters) : Letters[r] = ch

RECURSIVE localeCompare(_, _)
localeCompare(a, b) ==
    IF a = <<>> THEN (IF b = <<>> THEN 0 ELSE -1)
    ELSE IF b = <<>> THEN 1
    ELSE IF Head(a) # Head(b) THEN LetterRank(Head(a)) - LetterRank(Head(b))
    ELSE localeCompare(Tail(a), Tail(b))

\* filteredContests.sort((a, b) => a.contest_name.localeCompare(b.contest_name)),
\* a stable sort
RECURSIVE InsertByName(_, _)
InsertByName(c, s) ==
    IF s = <<>> THEN <<c>>
    ELSE IF localeCompare(c.contest_name, Head(s).contest_name) <= 0 THEN <<c>> \o s
         ELSE <<Head(s)>> \o InsertByName(c, Tail(s))

RECURSIVE sortByName(_)
sortByName(s) ==
    IF s = <<>> THEN <<>> ELSE InsertByName(Head(s), sortByName(Tail(s)))

\* filteredContests as the render leaves it: sorted in place in the branch that
\* shows the cards (lines 550-572)
renderedContests(list, cls, year, isLoading) ==
    LET shown == filteredContests(list, cls, year)
    IN  IF ~isLoading /\ year # NULL /\ Len(shown) # 0 THEN sortByName(shown)
        ELSE shown

\* contestsByYear (lines 526-532): the reduce, as a function from year to contests
RECURSIVE GroupByYear(_, _)
GroupByYear(list, acc) ==
    IF list = <<>> THEN acc
    ELSE LET c == Head(list)
             slot == IF c.year \in DOMAIN acc THEN acc[c.year] ELSE <<>>
         IN  GroupByYear(Tail(list),
                 [y \in DOMAIN acc \cup {c.year} |->
                     IF y = c.year THEN Append(slot, c) ELSE acc[y]])

contestsByYear(list, cls) ==
    GroupByYear(ClassOnly(list, getClassLevelString(cls)), <<>>)

\* Object.keys of an object with integer-like keys: the keys as strings, ascending
RECURSIVE KeysAscending(_)
KeysAscending(S) ==
    IF S = {} THEN <<>>
    ELSE LET m == CHOOSE x \in S : \A y \in S : x <= y
         IN  <<NumberToString(m)>> \o KeysAscending(S \ {m})

ObjectKeys(obj) == KeysAscending(DOMAIN obj)

\* the years prop of the Sidebar (line 541)
sidebarYears(list, cls) ==
    LET keys == ObjectKeys(contestsByYear(list, cls))
    IN  SortDescending([i \in 1..Len(keys) |-> ToNumber(keys[i])])

-----------------------------------------------------------------------------
(* HomePage: what the backend may return, and the handlers *)

HomeClassTexts == {NumberToString(9), OtherText}
HomeYears == {2022, 2023, 2024}
HomeKinds == HomeClassTexts \X HomeYears

\* the names of the contests of a list, by position
HomeNames == <<T("c"), T("a"), T("b"), T("a"), T("b")>>

HomeList(kinds) ==
    [i \in 1..Len(kinds) |->
        Contest(i, kinds[i][1], kinds[i][2], HomeNames[((i - 1) % 5) + 1], T("u"),
                NoSolutions)]

HomeListsUpTo(max) ==
    {HomeList(k) : k \in UNION {[1..n -> HomeKinds] : n \in 0..max}}

HomeLists == HomeListsUpTo(MaxList)

\* the classes the Header offers
HeaderClasses == {ClassNumber(9), ClassNumber(10), ClassOther}

\* the render (lines 519-588) of the state the handler leaves
RenderHome ==
    /\ yearList' = sidebarYears(homeContests', selectedClass')
    /\ filtered' = renderedContests(homeContests', selectedClass', selectedYear',
                                    homeLoading')

\* useEffect(() => fetchContests(), []) and fetchContests up to its await
HomeMount ==
    /\ homeFetch = "init"
    /\ homeLoading' = TRUE
    /\ homeFetch' = "pending"
    /\ UNCHANGED <<selectedClass, selectedYear, homeContests, adminVars>>
    /\ RenderHome

\* GET /contests resolves: setContests, finally, then the default-year effect
HomeFetchResolved(list) ==
    /\ homeFetch = "pending"
    /\ homeContests' = list
    /\ homeLoading' = FALSE
    /\ homeFetch' = "done"
    /\ selectedYear' = defaultYearEffect(list, selectedClass, selectedYear)
    /\ UNCHANGED <<selectedClass, adminVars>>
    /\ RenderHome

\* GET /contests fails: console.error only, finally
HomeFetchFailed ==
    /\ homeFetch = "pending"
    /\ homeLoading' = FALSE
    /\ homeFetch' = "failed"
    /\ UNCHANGED <<selectedClass, selectedYear, homeContests, adminVars>>
    /\ RenderHome

\* Header onSelectClass: setSelectedClass, then the default-year effect
onSelectClass(classLevel) ==
    /\ classLevel # selectedClass
    /\ selectedClass' = classLevel
    /\ selectedYear' = defaultYearEffect(homeContests, classLevel, selectedYear)
    /\ UNCHANGED <<homeContests, homeLoading, homeFetch, adminVars>>
    /\ RenderHome

\* Sidebar onSelectYear: one of the years it was handed
onSelectYear(year) ==
    /\ TruthyClass(selectedClass)
    /\ \E i \in 1..Len(yearList) : yearList[i] = year
    /\ selectedYear' = year
    /\ UNCHANGED <<selectedClass, homeContests, homeLoading, homeFetch, adminVars>>
    /\ RenderHome

-----------------------------------------------------------------------------
(* AdminPanel: values *)

\* the error state is the list of the parts its template joins; '' is <<>>
NoError == <<>>
RequiredFieldsError == <<"Please fill in all required fields">>
SaveError == <<"Failed to save contest">>
NotAuthenticatedError == <<"You are not authenticated. Please login again.">>
AuthFailedError == <<"Authentication failed. Please login again.">>

\* a || b for strings (undefined and '' are both falsy)
OrElse(a, b) == IF a # "" THEN a ELSE b

\* a rejected call: err.response.status (0: no response), .data.detail, err.message
HttpError(status, detail, message) ==
    [status |-> status, detail |-> detail, message |-> message]

NoHttpError == HttpError(0, "", "")

FetchErrorMessage(err) ==
    <<"Error: ", OrElse(err.detail, OrElse(err.message, "Failed to fetch contests")),
      ". Please check if the backend server is running.">>

DeleteErrorMessage(err) ==
    <<"Error: ", OrElse(err.detail, OrElse(err.message, "Failed to delete contest"))>>

\* a settled call: resolved with response.data (possibly missing), or rejected
Resolved(list) == [ok |-> TRUE, hasData |-> TRUE, data |-> list, err |-> NoHttpError]
ResolvedNoData == [ok |-> TRUE, hasData |-> FALSE, data |-> <<>>, err |-> NoHttpError]
Rejected(err) == [ok |-> FALSE, hasData |-> FALSE, data |-> <<>>, err |-> err]

\* localStorage: the item under 'admin_token'
NoToken == [stored |-> FALSE, value |-> Empty]
StoredToken(v) == [stored |-> TRUE, value |-> v]

\* the token test left out
FalsyTokenNever(t) == FALSE

\* !localStorage.getItem('admin_token')
FalsyToken(t) == ~t.stored \/ FalsyText(t.value)

defaultFormData ==
    [class_level |-> Empty, year |-> Empty, contest_name |-> Empty,
     contest_url |-> Empty, solutions |-> <<EmptyRow>>]

\* an HTTP request; the payload is <<>> or <<body>>
Request(method, id, payload) == [method |-> method, id |-> id, payload |-> payload]

GetContests == Request("GET", NULL, <<>>)

\* a suspended handler: which one, and which of its awaits it is at
Call(op, stage) == [op |-> op, stage |-> stage]

Step(op, requests, reload) == [op |-> op, requests |-> requests, reload |-> reload]

Without(s, i) == SubSeq(s, 1, i - 1) \o SubSeq(s, i + 1, Len(s))

\* setContests(response.data || []) and the catch's setContests([])
fetchedContests(resp) ==
    IF resp.ok /\ resp.hasData THEN resp.data ELSE <<>>

\* the error state after fetchContests has settled
fetchedError(resp, current) ==
    IF resp.ok THEN current ELSE FetchErrorMessage(resp.err)

\* the gate without its contest_name test
missingRequiredFieldNoName(form) ==
    FalsyText(form.class_level) \/ FalsyText(form.year)

\* line 74: the pre-submit gate
missingRequiredField(form) ==
    FalsyText(form.class_level) \/ FalsyText(form.year) \/ FalsyText(form.contest_name)

\* the filter without trim()
keepSolutionUntrimmed(s) ==
    ~FalsyText(s.problem_name) /\ ~FalsyText(s.solution_url)

\* lines 88-93: filter, then map
keepSolution(s) ==
    ~FalsyText(Trim(s.problem_name)) /\ ~FalsyText(Trim(s.solution_url))

payloadSolutions(solutions) ==
    LET kept == SelectSeq(solutions, keepSolution)
    IN  [i \in 1..Len(kept) |->
            [problem_name |-> kept[i].problem_name,
             solution_url |-> kept[i].solution_url]]

\* lines 82-94
toPayload(form) ==
    [class_level |-> IF form.class_level = OtherText THEN OtherText
                     ELSE form.class_level,
     year |-> ParseInt(form.year),
     contest_name |-> form.contest_name,
     contest_url |-> form.contest_url,
     solutions |-> payloadSolutions(form.solutions)]

\* lines 96-100
saveRequest(id, payload) ==
    IF ~FalsyNum(id) THEN Request("PUT", id, <<payload>>)
    ELSE Request("POST", NULL, <<payload>>)

\* lines 119-121
editSolutions(solutions) ==
    IF Len(solutions) > 0
    THEN [i \in 1..Len(solutions) |->
            [problem_name |-> solutions[i].problem_name,
             solution_url |-> solutions[i].solution_url]]
    ELSE <<EmptyRow>>

-----------------------------------------------------------------------------
(* AdminPanel: handlers *)

\* useEffect(() => fetchContests(), []): fetchContests up to its await
Mount ==
    /\ page = "new"
    /\ page' = "live"
    /\ loading' = TRUE
    /\ error' = NoError
    /\ inflight' = Append(inflight, Call("fetchContests", "list"))
    /\ last' = Step("mount", <<GetContests>>, FALSE)
    /\ UNCHANGED <<contests, isDialogOpen, editingId, formData, token, homeVars>>

\* the Retry button of the error banner (lines 367-379)
Retry ==
    /\ page = "live"
    /\ error # NoError
    /\ loading' = TRUE
    /\ error' = NoError
    /\ inflight' = Append(inflight, Call("fetchContests", "list"))
    /\ last' = Step("retry", <<GetContests>>, FALSE)
    /\ UNCHANGED <<contests, isDialogOpen, editingId, formData, page, token,
                   homeVars>>

\* fetchContests after its await (lines 58-66)
FetchSettled(i, resp) ==
    /\ i \in 1..Len(inflight)
    /\ inflight[i].op = "fetchContests"
    /\ contests' = fetchedContests(resp)
    /\ error' = fetchedError(resp, error)
    /\ loading' = FALSE
    /\ inflight' = Without(inflight, i)
    /\ last' = Step(IF resp.ok THEN "fetched" ELSE "fetchFailed", <<>>, FALSE)
    /\ UNCHANGED <<isDialogOpen, editingId, formData, page, token, homeVars>>

\* handleSubmit up to its first await (lines 69-100)
handleSubmit ==
    /\ page = "live"
    /\ IF missingRequiredField(formData)
       THEN /\ error' = RequiredFieldsError
            /\ last' = Step("submitInvalid", <<>>, FALSE)
            /\ UNCHANGED <<loading, inflight>>
       ELSE LET request == saveRequest(editingId, toPayload(formData))
            IN  /\ error' = NoError
                /\ loading' = TRUE
                /\ inflight' = Append(inflight, Call("handleSubmit", "save"))
                /\ last' = Step("submit", <<request>>, FALSE)
    /\ UNCHANGED <<contests, isDialogOpen, editingId, formData, page, token,
                   homeVars>>

\* the save that closes the form at once and merges nothing, with no refetch
SaveSettledNoRefetch(i, resp) ==
    /\ i \in 1..Len(inflight)
    /\ inflight[i].op = "handleSubmit" /\ inflight[i].stage = "save"
    /\ IF resp.ok
       THEN /\ loading' = FALSE
            /\ error' = NoError
            /\ formData' = defaultFormData
            /\ editingId' = NULL
            /\ isDialogOpen' = FALSE
            /\ inflight' = Without(inflight, i)
            /\ last' = Step("saved", <<>>, FALSE)
       ELSE /\ loading' = FALSE
            /\ error' = SaveError
            /\ inflight' = Without(inflight, i)
            /\ last' = Step("saveFailed", <<>>, FALSE)
            /\ UNCHANGED <<isDialogOpen, editingId, formData>>
    /\ UNCHANGED <<contests, page, token, homeVars>>

\* the save with resetForm() and setIsDialogOpen(false) in its finally
SaveSettledDiscardsDraft(i, resp) ==
    /\ i \in 1..Len(inflight)
    /\ inflight[i].op = "handleSubmit" /\ inflight[i].stage = "save"
    /\ IF resp.ok
       THEN /\ loading' = TRUE
            /\ error' = NoError
            /\ inflight' = [inflight EXCEPT
                               ![i] = Call("handleSubmit", "refetch")]
            /\ last' = Step("saved", <<GetContests>>, FALSE)
            /\ UNCHANGED <<isDialogOpen, editingId, formData>>
       ELSE /\ loading' = FALSE
            /\ error' = NoError
            /\ formData' = defaultFormData
            /\ editingId' = NULL
            /\ isDialogOpen' = FALSE
            /\ inflight' = Without(inflight, i)
            /\ last' = Step("saveFailed", <<>>, FALSE)
    /\ UNCHANGED <<contests, page, token, homeVars>>

\* the PUT or POST settles: fetchContests is entered, or the catch runs
SaveSettled(i, resp) ==
    /\ i \in 1..Len(inflight)
    /\ inflight[i].op = "handleSubmit" /\ inflight[i].stage = "save"
    /\ IF resp.ok
       THEN /\ loading' = TRUE
            /\ error' = NoError
            /\ inflight' = [inflight EXCEPT
                               ![i] = Call("handleSubmit", "refetch")]
            /\ last' = Step("saved", <<GetContests>>, FALSE)
       ELSE /\ loading' = FALSE
            /\ error' = SaveError
            /\ inflight' = Without(inflight, i)
            /\ last' = Step("saveFailed", <<>>, FALSE)
    /\ UNCHANGED <<contests, isDialogOpen, editingId, formData, page, token,
                   homeVars>>

\* the refetch awaited by handleSubmit settles: the rest of fetchContests, then
\* resetForm(), setIsDialogOpen(false) and the finally (lines 102-110)
SubmitRefetchSettled(i, resp) ==
    /\ i \in 1..Len(inflight)
    /\ inflight[i].op = "handleSubmit" /\ inflight[i].stage = "refetch"
    /\ contests' = fetchedContests(resp)
    /\ formData' = defaultFormData
    /\ editingId' = NULL
    /\ error' = NoError
    /\ isDialogOpen' = FALSE
    /\ loading' = FALSE
    /\ inflight' = Without(inflight, i)
    /\ last' = Step(IF resp.ok THEN "submitDone" ELSE "submitRefetchFailed",
                    <<>>, FALSE)
    /\ UNCHANGED <<page, token, homeVars>>

\* handleEdit (lines 113-125)
handleEdit(contest) ==
    /\ page = "live"
    /\ formData' = [class_level |-> contest.class_level,
                    year |-> NumberToString(contest.year),
                    contest_name |-> contest.contest_name,
                    contest_url |-> contest.contest_url,
                    solutions |-> editSolutions(contest.solutions)]
    /\ editingId' = contest.id
    /\ isDialogOpen' = TRUE
    /\ last' = Step("handleEdit", <<>>, FALSE)
    /\ UNCHANGED <<contests, loading, error, page, token, inflight, homeVars>>

\* handleDelete up to its first await (lines 127-141)
handleDelete(id, confirmed) ==
    /\ page = "live"
    /\ IF ~confirmed
       THEN /\ last' = Step("deleteDeclined", <<>>, FALSE)
            /\ UNCHANGED <<loading, error, inflight>>
       ELSE IF FalsyToken(token)
       THEN /\ error' = NotAuthenticatedError
            /\ loading' = FALSE
            /\ last' = Step("deleteNoToken", <<>>, FALSE)
            /\ UNCHANGED inflight
       ELSE LET request == Request("DELETE", id, <<>>)
            IN  /\ error' = NoError
                /\ loading' = TRUE
                /\ inflight' = Append(inflight, Call("handleDelete", "delete"))
                /\ last' = Step("delete", <<request>>, FALSE)
    /\ UNCHANGED <<contests, isDialogOpen, editingId, formData, page, token,
                   homeVars>>

\* the DELETE settles: fetchContests is entered, or the catch runs (lines 142-157)
DeleteSettled(i, resp) ==
    /\ i \in 1..Len(inflight)
    /\ inflight[i].op = "handleDelete" /\ inflight[i].stage = "delete"
    /\ IF resp.ok
       THEN /\ loading' = TRUE
            /\ error' = NoError
            /\ inflight' = [inflight EXCEPT
                               ![i] = Call("handleDelete", "refetch")]
            /\ last' = Step("deleted", <<GetContests>>, FALSE)
            /\ UNCHANGED <<contests, isDialogOpen, editingId, formData, page, token>>
       ELSE IF resp.err.status = 401
       THEN /\ error' = AuthFailedError
            /\ token' = NoToken
            /\ page' = "reloading"
            /\ loading' = FALSE
            /\ inflight' = Without(inflight, i)
            /\ last' = Step("deleteUnauthorized", <<>>, TRUE)
            /\ UNCHANGED <<contests, isDialogOpen, editingId, formData>>
       ELSE /\ error' = DeleteErrorMessage(resp.err)
            /\ loading' = FALSE
            /\ inflight' = Without(inflight, i)
            /\ last' = Step("deleteFailed", <<>>, FALSE)
            /\ UNCHANGED <<contests, isDialogOpen, editingId, formData, page, token>>
    /\ UNCHANGED homeVars

\* the reload asked for at line 149 happens: the page is built again and every
\* pending continuation is gone
PageReload ==
    /\ page = "reloading"
    /\ page' = "new"
    /\ contests' = <<>>
    /\ isDialogOpen' = FALSE
    /\ editingId' = NULL
    /\ loading' = FALSE
    /\ error' = NoError
    /\ formData' = defaultFormData
    /\ inflight' = <<>>
    /\ last' = Step("reload", <<>>, FALSE)
    /\ UNCHANGED <<token, homeVars>>

\* the refetch awaited by handleDelete settles, then the finally
DeleteRefetchSettled(i, resp) ==
    /\ i \in 1..Len(inflight)
    /\ inflight[i].op = "handleDelete" /\ inflight[i].stage = "refetch"
    /\ contests' = fetchedContests(resp)
    /\ error' = fetchedError(resp, error)
    /\ loading' = FALSE
    /\ inflight' = Without(inflight, i)
    /\ last' = Step(IF resp.ok THEN "deleteDone" ELSE "deleteRefetchFailed",
                    <<>>, FALSE)
    /\ UNCHANGED <<isDialogOpen, editingId, formData, page, token, homeVars>>

\* resetForm (lines 160-170) followed by setIsDialogOpen(open)
resetFormAndSetOpen(open, op) ==
    /\ formData' = defaultFormData
    /\ editingId' = NULL
    /\ error' = NoError
    /\ isDialogOpen' = open
    /\ last' = Step(op, <<>>, FALSE)
    /\ UNCHANGED <<contests, loading, page, token, inflight, homeVars>>

\* the Add Contest trigger (lines 209-214): resetForm(), then the dialog toggles
\* through handleOpenChange
addContestButton ==
    /\ page = "live"
    /\ resetFormAndSetOpen(~isDialogOpen, "addContest")

\* handleOpenChange (lines 194-197)
handleOpenChange(open) ==
    /\ page = "live"
    /\ IF open
       THEN /\ isDialogOpen' = TRUE
            /\ last' = Step("open", <<>>, FALSE)
            /\ UNCHANGED <<contests, editingId, loading, error, formData, page,
                           token, inflight, homeVars>>
       ELSE resetFormAndSetOpen(FALSE, "close")

\* addSolution (lines 172-177)
addSolution ==
    /\ page = "live"
    /\ formData' = [formData EXCEPT !.solutions = Append(@, EmptyRow)]
    /\ last' = Step("addSolution", <<>>, FALSE)
    /\ UNCHANGED <<contests, isDialogOpen, editingId, loading, error, page,
                   token, inflight, homeVars>>

RemoveAt(s, index) == Without(s, index)

\* removeSolution without its length test
removeSolutionUnguarded(index) ==
    /\ page = "live"
    /\ index \in 1..Len(formData.solutions)
    /\ formData' = [formData EXCEPT !.solutions = RemoveAt(@, index)]
    /\ last' = Step("removeSolution", <<>>, FALSE)
    /\ UNCHANGED <<contests, isDialogOpen, editingId, loading, error, page,
                   token, inflight, homeVars>>

\* removeSolution (lines 179-186); index counts from 1 here
removeSolution(index) ==
    /\ page = "live"
    /\ index \in 1..Len(formData.solutions)
    /\ formData' = IF Len(formData.solutions) > 1
                   THEN [formData EXCEPT !.solutions = RemoveAt(@, index)]
                   ELSE formData
    /\ last' = Step(IF Len(formData.solutions) > 1 THEN "removeSolution"
                    ELSE "removeSolutionRefused", <<>>, FALSE)
    /\ UNCHANGED <<contests, isDialogOpen, editingId, loading, error, page,
                   token, inflight, homeVars>>

\* updateSolution (lines 188-192)
updateSolution(index, field, value) ==
    /\ page = "live"
    /\ index \in 1..Len(formData.solutions)
    /\ formData' = [formData EXCEPT !.solutions[index][field] = value]
    /\ last' = Step("updateSolution", <<>>, FALSE)
    /\ UNCHANGED <<contests, isDialogOpen, editingId, loading, error, page,
                   token, inflight, homeVars>>

\* the onChange of the four inputs (lines 242, 263, 276, 289)
setField(field, value) ==
    /\ page = "live"
    /\ formData' = [formData EXCEPT ![field] = value]
    /\ last' = Step("setField", <<>>, FALSE)
    /\ UNCHANGED <<contests, isDialogOpen, editingId, loading, error, page,
                   token, inflight, homeVars>>

-----------------------------------------------------------------------------
(* AdminPanel: what the user can reach in the rendered page *)

\* the submit button left enabled while loading
SubmitFormWhileLoading == isDialogOpen /\ handleSubmit

\* the form's submit button is disabled while loading (lines 229, 352-355)
SubmitForm == isDialogOpen /\ ~loading /\ handleSubmit

\* the table is rendered when not loading; one row per contest (lines 386-449)
EditRow(i) == ~loading /\ i \in 1..Len(contests) /\ handleEdit(contests[i])

DeleteRow(i, confirmed) ==
    ~loading /\ i \in 1..Len(contests) /\ handleDelete(contests[i].id, confirmed)

\* Cancel, the close button, Escape (lines 208, 222-226, 344-351)
CloseDialog == isDialogOpen /\ handleOpenChange(FALSE)

\* the controls inside Dialog.Content exist while the dialog is open
AddRow(max) == isDialogOpen /\ Len(formData.solutions) < max /\ addSolution

RemoveRow(index) == isDialogOpen /\ removeSolution(index)

UpdateRow(index, field, value) == isDialogOpen /\ updateSolution(index, field, value)

SetField(field, value) == isDialogOpen /\ setField(field, value)

-----------------------------------------------------------------------------
(* Specifications *)

Tokens == {NoToken, StoredToken(T("t"))}

\* the state the two components are constructed with
HomeConstructed ==
    /\ selectedClass = ClassNumber(9)
    /\ selectedYear = NULL
    /\ homeContests = <<>>
    /\ homeLoading = FALSE
    /\ homeFetch = "init"
    /\ yearList = <<>>
    /\ filtered = <<>>

AdminConstructed ==
    /\ contests = <<>>
    /\ isDialogOpen = FALSE
    /\ editingId = NULL
    /\ loading = FALSE
    /\ error = NoError
    /\ formData = defaultFormData
    /\ page = "new"
    /\ inflight = <<>>
    /\ last = Step("init", <<>>, FALSE)

Init == HomeConstructed /\ AdminConstructed /\ token \in Tokens

\* ---- the home page
NextHome ==
    \/ HomeMount
    \/ \E list \in HomeLists : HomeFetchResolved(list)
    \/ HomeFetchFailed
    \/ \E c \in HeaderClasses : onSelectClass(c)
    \/ \E y \in HomeYears : onSelectYear(y)

InitHome == HomeConstructed /\ AdminConstructed /\ token = NoToken

SpecHome == InitHome /\ [][NextHome]_vars

\* ---- the view-model on every list, class and year: a page rendered with them
InitView ==
    /\ selectedClass \in HeaderClasses
    /\ selectedYear \in HomeYears \cup {NULL}
    /\ homeContests \in HomeListsUpTo(MaxViewList)
    /\ homeLoading = FALSE
    /\ homeFetch = "done"
    /\ yearList = sidebarYears(homeContests, selectedClass)
    /\ filtered = renderedContests(homeContests, selectedClass, selectedYear, FALSE)
    /\ AdminConstructed
    /\ token = NoToken

NextView ==
    \/ \E c \in HeaderClasses : onSelectClass(c)
    \/ \E y \in HomeYears : onSelectYear(y)

SpecView == InitView /\ [][NextView]_vars

\* ---- the admin form: rich solution rows, one list and one failure
Solution(name, url) == [problem_name |-> name, solution_url |-> url]

ContestA == Contest(7, NumberToString(9), 2024, T("a"), T("u"), NoSolutions)
ContestB ==
    Contest(12, OtherText, 2023, T("b"), Empty,
            <<Solution(T("a"), T("u")), Solution(T("b"), T("u"))>>)

FormList == <<ContestA, ContestB>>

ProblemNames == {Empty, T("a"), <<"b", " ">>}
SolutionUrls == {T(" "), T("u")}

RowValues(field) == IF field = "problem_name" THEN ProblemNames ELSE SolutionUrls

ServerError ==
    HttpError(500, "Contest not found", "Request failed with status code 500")

\* the page once the mount fetch has brought FormList
InitForm ==
    /\ HomeConstructed
    /\ contests = FormList
    /\ isDialogOpen = FALSE
    /\ editingId = NULL
    /\ loading = FALSE
    /\ error = NoError
    /\ formData = defaultFormData
    /\ page = "live"
    /\ token = StoredToken(T("t"))
    /\ inflight = <<>>
    /\ last = Step("fetched", <<>>, FALSE)

NextForm ==
    \/ addContestButton
    \/ CloseDialog
    \/ \E i \in 1..Len(contests) : EditRow(i)
    \/ AddRow(MaxRows)
    \/ \E i \in 1..MaxRows : RemoveRow(i)
    \/ \E i \in 1..MaxRows, field \in {"problem_name", "solution_url"} :
          \E value \in RowValues(field) : UpdateRow(i, field, value)
    \/ SubmitForm
    \/ \E resp \in {ResolvedNoData, Rejected(ServerError)} : SaveSettled(1, resp)
    \/ SubmitRefetchSettled(1, Resolved(FormList))

SpecForm == InitForm /\ [][NextForm]_vars

\* ---- the admin page against the network
Unauthorized == HttpError(401, "Invalid token", "Request failed with status code 401")
NetworkError == HttpError(0, "", "Network Error")

AdminErrors == {Unauthorized, ServerError, NetworkError}

\* a contest the backend numbered 0
ContestZ == Contest(0, NumberToString(9), 2022, T("c"), T("u"), NoSolutions)

AdminLists == {<<>>, <<ContestA>>, <<ContestA, ContestB>>, <<ContestZ>>}

ListResponses ==
    {Resolved(l) : l \in AdminLists} \cup {ResolvedNoData}
        \cup {Rejected(e) : e \in AdminErrors}

WriteResponses == {ResolvedNoData} \cup {Rejected(e) : e \in AdminErrors}

FieldValues(field) ==
    CASE field = "class_level" -> {Empty, NumberToString(9)}
      [] field = "year" -> {Empty, NumberToString(2024)}
      [] field = "contest_name" -> {Empty, T(" "), T("a")}
      [] field = "contest_url" -> {T("u")}

FieldNames == {"class_level", "year", "contest_name", "contest_url"}

NextAdmin ==
    \/ Mount
    \/ Retry
    \/ \E i \in 1..Len(inflight), resp \in ListResponses : FetchSettled(i, resp)
    \/ addContestButton
    \/ CloseDialog
    \/ \E i \in 1..Len(contests) : EditRow(i)
    \/ \E i \in 1..Len(contests), confirmed \in BOOLEAN : DeleteRow(i, confirmed)
    \/ \E field \in FieldNames : \E value \in FieldValues(field) : SetField(field, value)
    \/ SubmitForm
    \/ \E i \in 1..Len(inflight), resp \in WriteResponses : SaveSettled(i, resp)
    \/ \E i \in 1..Len(inflight), resp \in ListResponses : SubmitRefetchSettled(i, resp)
    \/ \E i \in 1..Len(inflight), resp \in WriteResponses : DeleteSettled(i, resp)
    \/ \E i \in 1..Len(inflight), resp \in ListResponses : DeleteRefetchSettled(i, resp)
    \/ PageReload

SpecAdmin == Init /\ [][NextAdmin]_vars

-----------------------------------------------------------------------------
(* Properties of the home page *)

Elements(seq) == {seq[i] : i \in 1..Len(seq)}

StrictlyDescending(seq) == \A i, j \in 1..Len(seq) : i < j => seq[i] > seq[j]

\* the text the backend uses for a class, written out
ClassText(cls) ==
    IF cls.other THEN <<"o", "t", "h", "e", "r">>
    ELSE CASE cls.n = 9 -> <<"9">>
           [] cls.n = 10 -> <<"1", "0">>
           [] cls.n = 11 -> <<"1", "1">>
           [] cls.n = 12 -> <<"1", "2">>

\* the positions of the contests of the selected class
InClass(list, cls) == {i \in 1..Len(list) : list[i].class_level = ClassText(cls)}

YearsInClass(list, cls) == {list[i].year : i \in InClass(list, cls)}

\* C1: the years handed to the Sidebar, and the years the default-year effect
\* computes, are the distinct years of the contests of the selected class, each
\* once, strictly descending.
C1_AvailableYears ==
    LET want == YearsInClass(homeContests, selectedClass)
        effect == effectYears(homeContests, selectedClass)
    IN  /\ Elements(yearList) = want
        /\ StrictlyDescending(yearList)
        /\ Elements(effect) = want
        /\ StrictlyDescending(effect)

\* a list where a year of the selected class repeats, the years arrive out of
\* order and another class is present
C1_Witness ==
    /\ Len(yearList) = 2
    /\ Cardinality(InClass(homeContests, selectedClass)) = 3
    /\ Len(homeContests) = 4
    /\ homeContests[1].year < homeContests[4].year
    /\ homeContests[1].class_level = ClassText(selectedClass)
    /\ homeContests[4].class_level = ClassText(selectedClass)

\* the positions filteredContests must show
Matching(list, cls, year) ==
    {i \in InClass(list, cls) : year = NULL \/ list[i].year = year}

\* C2: filteredContests holds exactly the contests of the list whose class_level
\* is the selected class ("other" being a class of its own) and, when a year is
\* selected, whose year is that year: each once, none missing, none from outside.
C2_FilteredContests ==
    LET want == Matching(homeContests, selectedClass, selectedYear)
    IN  /\ Len(filtered) = Cardinality(want)
        /\ \A k \in 1..Len(filtered) : \E i \in want : filtered[k] = homeContests[i]
        /\ \A i \in want : \E k \in 1..Len(filtered) : filtered[k] = homeContests[i]

\* class "other" with no year selected, some contests shown and some left out
C2_Witness ==
    /\ selectedClass = ClassOther
    /\ selectedYear = NULL
    /\ Len(filtered) = 2
    /\ Len(homeContests) = 3

\* a second case: a year is selected and only part of the class is shown
C2_WitnessYear ==
    /\ selectedYear # NULL
    /\ Len(filtered) = 1
    /\ Cardinality(InClass(homeContests, selectedClass)) = 2

Max(S) == CHOOSE x \in S : \A y \in S : x >= y

\* C9: a step that loads the list or changes the class leaves a selected year as
\* it is, and with no year selected it selects the most recent year of the
\* selected class, or nothing when that class has no contest.
C9_DefaultYear ==
    [][((homeFetch = "pending" /\ homeFetch' = "done") \/ selectedClass' # selectedClass)
        => selectedYear' =
             IF selectedYear # NULL THEN selectedYear
             ELSE IF YearsInClass(homeContests', selectedClass') = {} THEN NULL
             ELSE Max(YearsInClass(homeContests', selectedClass'))]_vars

\* the list is loaded and the most recent of several years is selected
C9_Witness ==
    /\ homeFetch = "done"
    /\ Cardinality(YearsInClass(homeContests, selectedClass)) = 3
    /\ selectedYear = Max(YearsInClass(homeContests, selectedClass))
    /\ homeContests[1].year # selectedYear

-----------------------------------------------------------------------------
(* Properties of the admin form *)

\* C3: the draft always has at least one solution row, before and after every
\* step, and removeSolution changes nothing when exactly one row remains.
C3_AtLeastOneRow ==
    [][/\ Len(formData.solutions) >= 1
       /\ Len(formData'.solutions) >= 1
       /\ (last'.op \in {"removeSolution", "removeSolutionRefused"}
             /\ Len(formData.solutions) = 1 => formData' = formData)]_vars

\* removeSolution was called on the only row, of a draft seeded by handleEdit
C3_Witness ==
    /\ last.op = "removeSolutionRefused"
    /\ Len(formData.solutions) = 1
    /\ editingId = ContestA.id

\* a text with a character that is not white space
NonBlank(text) == \E i \in 1..Len(text) : text[i] # " "

\* the rows of a draft a payload must carry
KeptRows(solutions) ==
    {i \in 1..Len(solutions) :
        NonBlank(solutions[i].problem_name) /\ NonBlank(solutions[i].solution_url)}

\* the k-th of a set of positions, in ascending order
Nth(S, k) == CHOOSE i \in S : Cardinality({j \in S : j <= i}) = k

\* C4: the payload a submit sends carries exactly the rows of the draft whose
\* two fields are both non-blank after trimming, in the draft's order, each as
\* the draft holds it.
C4_PayloadSolutions ==
    last.op = "submit" =>
        LET sent == last.requests[1].payload[1].solutions
            kept == KeptRows(formData.solutions)
        IN  /\ Len(sent) = Cardinality(kept)
            /\ \A k \in 1..Len(sent) : sent[k] = formData.solutions[Nth(kept, k)]

\* three rows, the middle one dropped for a white-space url, two different rows sent
C4_Witness ==
    /\ last.op = "submit"
    /\ Len(formData.solutions) = 3
    /\ formData.solutions[2].problem_name # Empty
    /\ formData.solutions[2].solution_url = T(" ")
    /\ Len(last.requests[1].payload[1].solutions) = 2
    /\ last.requests[1].payload[1].solutions[1]
         # last.requests[1].payload[1].solutions[2]

-----------------------------------------------------------------------------
(* Properties of the admin page *)

SubmitSteps == {"submit", "submitInvalid"}

\* C5: a submit with class_level, year or contest_name empty sets an error
\* message, sends no request, and leaves loading, the dialog, the draft and
\* editingId as they were.
C5_ValidationGate ==
    [][(last'.op \in SubmitSteps
          /\ (formData.class_level = Empty \/ formData.year = Empty
                \/ formData.contest_name = Empty))
        => /\ error' # NoError
           /\ last'.requests = <<>>
           /\ inflight' = inflight
           /\ loading' = loading
           /\ isDialogOpen' = isDialogOpen
           /\ formData' = formData
           /\ editingId' = editingId]_vars

\* the scenario class_level = "" with the other required fields filled
C5_Witness ==
    /\ last.op \in SubmitSteps
    /\ formData.class_level = Empty
    /\ formData.year # Empty
    /\ formData.contest_name # Empty
    /\ error = RequiredFieldsError
    /\ inflight = <<>>

DeleteSteps == {"deleteDeclined", "deleteNoToken", "delete"}

\* C6: handleDelete sends a request only when the deletion was confirmed and a
\* credential is stored; declined, or with no credential, it sends nothing and
\* leaves the list as it was, and with no credential it sets the
\* not-authenticated message.
C6_DeleteGate ==
    [][last'.op \in DeleteSteps
        => /\ (last'.requests # <<>> \/ inflight' # inflight)
                => (last'.op # "deleteDeclined" /\ token.stored)
           /\ (last'.op = "deleteDeclined" \/ ~token.stored)
                => (last'.requests = <<>> /\ inflight' = inflight
                      /\ contests' = contests)
           /\ (last'.op # "deleteDeclined" /\ ~token.stored)
                => error' = NotAuthenticatedError]_vars

\* a confirmed delete with no credential stored
C6_Witness ==
    /\ last.op = "deleteNoToken"
    /\ ~token.stored
    /\ error = NotAuthenticatedError
    /\ inflight = <<>>
    /\ contests # <<>>

\* C7, as claimed: every authentication error on delete, the credential missing
\* or rejected with 401, clears the stored credential and reloads the page; any
\* other delete failure keeps the credential, does not reload and sets a message
\* made of the server detail or the error message.
C7_AuthErrorsReload ==
    /\ last.op \in {"deleteNoToken", "deleteUnauthorized"}
         => (last.reload /\ ~token.stored)
    /\ last.op = "deleteFailed"
         => /\ token.stored
            /\ ~last.reload
            /\ error \in {<<"Error: ", e.detail>> : e \in AdminErrors}
                           \cup {<<"Error: ", e.message>> : e \in AdminErrors}

\* C8: when the PUT or POST succeeds, that very step sends the list GET and
\* changes neither the list nor the form; the handler's GET is never in flight
\* unless its save has just resolved; and when that GET settles the dialog is
\* closed, the draft is the empty default and editingId is null.
C8_RefetchThenClose ==
    [][/\ last'.op = "saved"
            => /\ \E i \in 1..Len(inflight) : inflight[i] = Call("handleSubmit", "save")
               /\ last'.requests = <<GetContests>>
               /\ \E i \in 1..Len(inflight') :
                     inflight'[i] = Call("handleSubmit", "refetch")
               /\ contests' = contests
               /\ UNCHANGED <<isDialogOpen, formData, editingId>>
       /\ ((\E i \in 1..Len(inflight') : inflight'[i] = Call("handleSubmit", "refetch"))
             /\ ~(\E i \in 1..Len(inflight) : inflight[i] = Call("handleSubmit", "refetch")))
            => last'.op = "saved"
       /\ (\E i \in 1..Len(inflight) : inflight[i] = Call("handleSubmit", "refetch"))
            => \/ UNCHANGED <<inflight, contests>>
               \/ /\ last'.op \in {"submitDone", "submitRefetchFailed"}
                  /\ ~isDialogOpen'
                  /\ formData' = defaultFormData
                  /\ editingId' = NULL
                  /\ inflight' = <<>>]_vars

\* an edit was saved, the list came back and the dialog has closed
C8_Witness ==
    /\ last.op = "submitDone"
    /\ contests # <<>>
    /\ ~isDialogOpen
    /\ formData = defaultFormData
    /\ editingId = NULL

FailureSteps ==
    {"fetchFailed", "saveFailed", "deleteFailed", "submitRefetchFailed",
     "deleteRefetchFailed"}

\* C10, as claimed: once the handling of a failed call has finished, a non-empty
\* error message is set.
C10_FailureLeavesMessage == last.op \in FailureSteps => error # NoError

\* C11, as claimed: a submit that sends a request sends, while a contest is being
\* edited, whatever its id, a PUT addressed to that contest's id, and a POST only
\* when no contest is being edited.
C11_EditSubmitsPut ==
    last.op = "submit" =>
        LET request == last.requests[1]
        IN  IF editingId # NULL
            THEN request.method = "PUT" /\ request.id = editingId
            ELSE request.method = "POST"

\* C12: on the admin page, whatever the order in which the page's operations are
\* started and their calls settle, loading is true in every state in which a
\* call started by fetchContests, handleSubmit or handleDelete is in flight, and
\* false in every state in which none is.
C12_LoadingWhileInFlight == loading <=> (inflight # <<>>)

\* a delete whose DELETE has resolved: the list refetch it started is in flight
C12_Witness ==
    /\ inflight = <<Call("handleDelete", "refetch")>>
    /\ loading
    /\ contests # <<>>
    /\ last.op = "deleted"

\* C13, as claimed: on the home page, once the list is loaded and the
\* default-year effect has run, through every class change and year selection,
\* a selected year is one of the available years of the selected class.
C13_SelectedYearAvailable ==
    (homeFetch = "done" /\ selectedYear # NULL)
        => selectedYear \in YearsInClass(homeContests, selectedClass)

\* C13, as amended: every step that changes selectedYear, the default-year
\* effect or a selection from the sidebar, sets it to one of the available years
\* of the class selected after the step, and while the class stays the same a
\* selected year that is available stays selected and available; a class change
\* keeps the selected year, available in the new class or not.
C13_YearSetFromAvailable ==
    [][/\ (selectedYear' # selectedYear)
            => selectedYear' \in YearsInClass(homeContests', selectedClass')
       /\ (selectedClass' = selectedClass
             /\ selectedYear \in YearsInClass(homeContests, selectedClass))
            => /\ selectedYear' # NULL
               /\ selectedYear' \in YearsInClass(homeContests', selectedClass')]_vars

\* class 9 has 2024 only; the class is now "other" and its older year was
\* picked from the sidebar
C13_Witness ==
    /\ homeFetch = "done"
    /\ selectedClass = ClassOther
    /\ YearsInClass(homeContests, ClassNumber(9)) = {2024}
    /\ YearsInClass(homeContests, ClassOther) = {2022, 2023}
    /\ selectedYear = 2022
    /\ yearList = <<2023, 2022>>

\* C14: the step in which the create or update request fails leaves the dialog
\* as it was (open, unless the user closed it meanwhile), leaves the draft,
\* editingId and the contest list unchanged, sends no request, leaves no call in
\* flight for the handler, and sets the error 'Failed to save contest'.
C14_SaveFailureKeepsDraft ==
    [][last'.op = "saveFailed"
        => /\ \E i \in 1..Len(inflight) : inflight[i] = Call("handleSubmit", "save")
           /\ isDialogOpen' = isDialogOpen
           /\ formData' = formData
           /\ editingId' = editingId
           /\ contests' = contests
           /\ last'.requests = <<>>
           /\ \A i \in 1..Len(inflight') : inflight'[i].op # "handleSubmit"
           /\ Len(inflight') = Len(inflight) - 1
           /\ error' = <<"Failed to save contest">>]_vars

\* the update of contest 7 has failed: the dialog is open on the draft
C14_Witness ==
    /\ last.op = "saveFailed"
    /\ isDialogOpen
    /\ editingId = ContestA.id
    /\ formData.contest_name = ContestA.contest_name
    /\ formData.year = <<"2", "0", "2", "4">>
    /\ contests = <<ContestA, ContestB>>
    /\ error = <<"Failed to save contest">>
    /\ inflight = <<>>

====
